---- MODULE Spec2Model ----
(***************************************************************************)
(* Model of the finished control structures of qc-workbook-lecturenotes:   *)
(*   - energy_expval (runtime_vqe.py): the JobError retry loop;            *)
(*   - main (runtime_vqe.py): the objective-function counter, the interim  *)
(*     reports and the returned dictionary;                                *)
(*   - trotter_twopi_heisenberg (mymodule_heisenberg.py): the gate         *)
(*     sequence of one Trotter step.                                       *)
(* The three functions do not share state; each has its own specification  *)
(* (RetrySpec / FairRetrySpec, MainSpec, TrotterSpec) over its own         *)
(* variables, the other variables staying at their initial values.         *)
(***************************************************************************)
EXTENDS Integers, Sequences, FiniteSets

VARIABLES
    \* energy_expval
    rpc,          \* position in energy_expval
    itry,         \* loop variable of the retry loop (-1 before the first iteration)
    energy,       \* local variable energy
    attempts,     \* history: one record per attempt made, in order
    retval,       \* the value returned by energy_expval: <<v>>, or << >> before it returns
    exc,          \* the exception that left energy_expval ("none" if none)
    \* main
    mpc,          \* position in main
    report_every, \* argument report_every
    maxiter,      \* argument maxiter
    num_calls,    \* the nonlocal counter num_calls
    published,    \* messages handed to user_messenger.publish, in order
    opt_calls,    \* history: calls of objective_function made by optimizer.minimize
    ret_x,        \* ret.x
    min_energy,   \* min_energy
    result,       \* the dictionary returned by main ("none" until it returns)
    \* trotter_twopi_heisenberg
    tpc,          \* position in trotter_twopi_heisenberg
    n_spins,      \* state_register.size
    g,            \* argument g
    energy_norm,  \* argument energy_norm
    num_steps,    \* argument num_steps
    j,            \* loop variable
    circuit,      \* the gates appended to the circuit, in order
    unitary       \* the circuit returned ("none" until it returns)

rvars == <<rpc, itry, energy, attempts, retval, exc>>
mvars == <<mpc, report_every, maxiter, num_calls, published, opt_calls, ret_x,
           min_energy, result>>
tvars == <<tpc, n_spins, g, energy_norm, num_steps, j, circuit, unitary>>
vars == <<rvars, mvars, tvars>>

\* ---------------------------------------------------------------- bounds
MaxEnergy == 1
MaxParam == 1
MaxIter == 4
MaxReportEvery == 3
MaxSpins == 4
MaxNorm == 1
MaxField == 1
MaxSteps == 2

Energies == 0..MaxEnergy
Params == 0..MaxParam

\* ---------------------------------------------------------------- energy_expval
NUM_RETRIES == 5

RetryInit ==
    /\ rpc = "for"
    /\ itry = -1
    /\ energy = 0
    /\ attempts = << >>
    /\ retval = << >>
    /\ exc = "none"
    \* the other two functions are not running
    /\ mpc = "idle"
    /\ report_every = 0
    /\ maxiter = 0
    /\ num_calls = 0
    /\ published = << >>
    /\ opt_calls = 0
    /\ ret_x = "none"
    /\ min_energy = "none"
    /\ result = "none"
    /\ tpc = "idle"
    /\ n_spins = 0
    /\ g = 0
    /\ energy_norm = 0
    /\ num_steps = 1
    /\ j = 0
    /\ circuit = << >>
    /\ unitary = "none"

\* A bug variant of ForStep: energy is initialised once, before the loop.
ForStep_NoReset ==
    /\ rpc = "for"
    /\ IF itry + 1 < NUM_RETRIES
         THEN /\ itry' = itry + 1
              /\ energy' = energy
              /\ rpc' = "try"
         ELSE /\ rpc' = "return"
              /\ UNCHANGED <<itry, energy>>
    /\ UNCHANGED <<attempts, retval, exc, mvars, tvars>>

\* for itry in range(NUM_RETRIES): energy = 0.   (loop exhausted: fall to return)
ForStep ==
    /\ rpc = "for"
    /\ IF itry + 1 < NUM_RETRIES
         THEN /\ itry' = itry + 1
              /\ energy' = 0
              /\ rpc' = "try"
         ELSE /\ rpc' = "return"
              /\ UNCHANGED <<itry, energy>>
    /\ UNCHANGED <<attempts, retval, exc, mvars, tvars>>

\* The evaluation body (to be pasted by the student) completes: it has added
\* the attempt's contribution e to energy; the else clause is entered.
BodyCompletes ==
    /\ rpc = "try"
    /\ \E e \in Energies :
         /\ energy' = energy + e
         /\ attempts' = Append(attempts, [outcome |-> "ok", value |-> e])
    /\ rpc' = "else"
    /\ UNCHANGED <<itry, retval, exc, mvars, tvars>>

\* The body raises JobError after having added a partial contribution e.
BodyJobError ==
    /\ rpc = "try"
    /\ \E e \in Energies :
         /\ energy' = energy + e
         /\ attempts' = Append(attempts, [outcome |-> "JobError", value |-> e])
    /\ rpc' = "except"
    /\ UNCHANGED <<itry, retval, exc, mvars, tvars>>

\* The body raises an exception that is not a JobError: no handler, it propagates.
BodyOtherError ==
    /\ rpc = "try"
    /\ \E e \in Energies :
         /\ energy' = energy + e
         /\ attempts' = Append(attempts, [outcome |-> "Other", value |-> e])
    /\ rpc' = "raised"
    /\ exc' = "Other"
    /\ UNCHANGED <<itry, retval, mvars, tvars>>

\* A bug variant of ExceptJobError: the last attempt is compared off by one.
ExceptJobError_OffByOne ==
    /\ rpc = "except"
    /\ IF itry = NUM_RETRIES
         THEN /\ rpc' = "raised"
              /\ exc' = "JobError"
         ELSE /\ rpc' = "for"
              /\ exc' = exc
    /\ UNCHANGED <<itry, energy, attempts, retval, mvars, tvars>>

\* except JobError: if itry == NUM_RETRIES - 1: raise
ExceptJobError ==
    /\ rpc = "except"
    /\ IF itry = NUM_RETRIES - 1
         THEN /\ rpc' = "raised"
              /\ exc' = "JobError"
         ELSE /\ rpc' = "for"
              /\ exc' = exc
    /\ UNCHANGED <<itry, energy, attempts, retval, mvars, tvars>>

\* else: break
Break ==
    /\ rpc = "else"
    /\ rpc' = "return"
    /\ UNCHANGED <<itry, energy, attempts, retval, exc, mvars, tvars>>

\* return energy
ReturnEnergy ==
    /\ rpc = "return"
    /\ retval' = <<energy>>
    /\ rpc' = "returned"
    /\ UNCHANGED <<itry, energy, attempts, exc, mvars, tvars>>

RetryNext ==
    \/ ForStep
    \/ BodyCompletes
    \/ BodyJobError
    \/ BodyOtherError
    \/ ExceptJobError
    \/ Break
    \/ ReturnEnergy

\* ---------------------------------------------------------------- main
MainInit ==
    /\ mpc = "minimize"
    /\ report_every \in -1..MaxReportEvery
    /\ maxiter \in 1..MaxIter
    /\ num_calls = 0
    /\ published = << >>
    /\ opt_calls = 0
    /\ ret_x = "none"
    /\ min_energy = "none"
    /\ result = "none"
    \* the other two functions are not running
    /\ rpc = "idle"
    /\ itry = -1
    /\ energy = 0
    /\ attempts = << >>
    /\ retval = << >>
    /\ exc = "none"
    /\ tpc = "idle"
    /\ n_spins = 0
    /\ g = 0
    /\ energy_norm = 0
    /\ num_steps = 1
    /\ j = 0
    /\ circuit = << >>
    /\ unitary = "none"

\* A bug variant of ObjectiveFunction: the report test reads num_calls before
\* the increment.
ObjectiveFunction_TestBeforeIncrement(param_values, e) ==
    /\ num_calls' = num_calls + 1
    /\ published' =
         IF report_every > 0 /\ num_calls % report_every = 0
           THEN Append(published, [params |-> param_values, energy |-> e,
                                   num_calls |-> num_calls'])
           ELSE published

\* objective_function(param_values), its body computing the energy e:
\* num_calls += 1; publish when report_every > 0 and num_calls % report_every == 0
ObjectiveFunction(param_values, e) ==
    /\ num_calls' = num_calls + 1
    /\ published' =
         IF report_every > 0 /\ num_calls' % report_every = 0
           THEN Append(published, [params |-> param_values, energy |-> e,
                                   num_calls |-> num_calls'])
           ELSE published

\* optimizer.minimize calls objective_function (at most maxiter evaluations)
MinimizeCall ==
    /\ mpc = "minimize"
    /\ opt_calls < maxiter
    /\ \E p \in Params, e \in Energies : ObjectiveFunction(p, e)
    /\ opt_calls' = opt_calls + 1
    /\ UNCHANGED <<mpc, report_every, maxiter, ret_x, min_energy, result, rvars, tvars>>

\* optimizer.minimize returns ret (after at least one evaluation)
MinimizeReturn ==
    /\ mpc = "minimize"
    /\ opt_calls >= 1
    /\ \E x \in Params : ret_x' = x
    /\ mpc' = "final"
    /\ UNCHANGED <<report_every, maxiter, num_calls, published, opt_calls, min_energy,
                   result, rvars, tvars>>

\* min_energy = objective_function(ret.x)
FinalCall ==
    /\ mpc = "final"
    /\ \E e \in Energies :
         /\ ObjectiveFunction(ret_x, e)
         /\ min_energy' = e
    /\ mpc' = "return"
    /\ UNCHANGED <<report_every, maxiter, opt_calls, ret_x, result, rvars, tvars>>

\* The body of objective_function raises (the energy evaluation gave up): the
\* counter is not reached and the exception leaves main.
ObjectiveRaises ==
    /\ mpc \in {"minimize", "final"}
    /\ mpc = "minimize" => opt_calls < maxiter
    /\ mpc' = "raised"
    /\ UNCHANGED <<report_every, maxiter, num_calls, published, opt_calls, ret_x,
                   min_energy, result, rvars, tvars>>

\* return {'params': ret.x, 'energy': min_energy, 'num_calls': num_calls}
MainReturn ==
    /\ mpc = "return"
    /\ result' = [params |-> ret_x, energy |-> min_energy, num_calls |-> num_calls]
    /\ mpc' = "returned"
    /\ UNCHANGED <<report_every, maxiter, num_calls, published, opt_calls, ret_x,
                   min_energy, rvars, tvars>>

MainNext ==
    \/ MinimizeCall
    \/ MinimizeReturn
    \/ FinalCall
    \/ ObjectiveRaises
    \/ MainReturn

\* ---------------------------------------------------------------- trotter_twopi_heisenberg
RECURSIVE Factorial(_)
Factorial(n) == IF n <= 1 THEN 1 ELSE n * Factorial(n - 1)

\* Angles are exact multiples of one unit, chosen so that np.pi / 2 and every
\* 2 * np.pi / num_steps of the model are whole numbers of units.
HalfPi == Factorial(MaxSteps)

\* The instructions QuantumCircuit appends
CX(control, target) == [name |-> "cx", qubits |-> <<control, target>>, angle |-> 0]
RZ(theta, qubit) == [name |-> "rz", qubits |-> <<qubit>>, angle |-> theta]
H(qubit) == [name |-> "h", qubits |-> <<qubit>>, angle |-> 0]
P(theta, qubit) == [name |-> "p", qubits |-> <<qubit>>, angle |-> theta]

\* step_size = 2. * np.pi / num_steps
step_size == (4 * HalfPi) \div num_steps

\* phase = -energy_norm * step_size
phase == (-energy_norm) * step_size

TrotterInit ==
    /\ tpc = "for"
    /\ n_spins \in 0..MaxSpins
    /\ g \in -MaxField..MaxField
    /\ energy_norm \in -MaxNorm..MaxNorm
    /\ num_steps \in 1..MaxSteps
    /\ j = 0
    /\ circuit = << >>
    /\ unitary = "none"
    \* the other two functions are not running
    /\ rpc = "idle"
    /\ itry = -1
    /\ energy = 0
    /\ attempts = << >>
    /\ retval = << >>
    /\ exc = "none"
    /\ mpc = "idle"
    /\ report_every = 0
    /\ maxiter = 0
    /\ num_calls = 0
    /\ published = << >>
    /\ opt_calls = 0
    /\ ret_x = "none"
    /\ min_energy = "none"
    /\ result = "none"

\* for j in range(n_spins):
ForSpin ==
    /\ tpc = "for"
    /\ tpc' = IF j < n_spins THEN "ZZ" ELSE "repeat"
    /\ UNCHANGED <<n_spins, g, energy_norm, num_steps, j, circuit, unitary, rvars, mvars>>

\* circuit.cx(j, (j + 1) % n_spins) on a one-spin register: control and target
\* are the same qubit, which QuantumCircuit rejects (CircuitError).
CxDuplicate ==
    /\ tpc = "ZZ"
    /\ j = (j + 1) % n_spins
    /\ tpc' = "raised"
    /\ UNCHANGED <<n_spins, g, energy_norm, num_steps, j, circuit, unitary, rvars, mvars>>

\* A bug variant of EmitZZ: the rz is applied to the control qubit.
EmitZZ_RzOnControl ==
    /\ tpc = "ZZ"
    /\ j # (j + 1) % n_spins
    /\ circuit' = circuit \o
         << CX(j, (j + 1) % n_spins),
            RZ(-2 * phase, j),
            CX(j, (j + 1) % n_spins) >>
    /\ tpc' = "XX"
    /\ UNCHANGED <<n_spins, g, energy_norm, num_steps, j, unitary, rvars, mvars>>

\* # ZZ
EmitZZ ==
    /\ tpc = "ZZ"
    /\ j # (j + 1) % n_spins
    /\ circuit' = circuit \o
         << CX(j, (j + 1) % n_spins),
            RZ(-2 * phase, (j + 1) % n_spins),
            CX(j, (j + 1) % n_spins) >>
    /\ tpc' = "XX"
    /\ UNCHANGED <<n_spins, g, energy_norm, num_steps, j, unitary, rvars, mvars>>

\* # XX
EmitXX ==
    /\ tpc = "XX"
    /\ circuit' = circuit \o
         << H(j),
            H((j + 1) % n_spins),
            CX(j, (j + 1) % n_spins),
            RZ(-2 * phase, (j + 1) % n_spins),
            CX(j, (j + 1) % n_spins),
            H(j),
            H((j + 1) % n_spins) >>
    /\ tpc' = "YY"
    /\ UNCHANGED <<n_spins, g, energy_norm, num_steps, j, unitary, rvars, mvars>>

\* A bug variant of EmitYY: the closing phase gate of the neighbour is applied
\* to qubit j again.
EmitYY_Unbalanced ==
    /\ tpc = "YY"
    /\ circuit' = circuit \o
         << P(-HalfPi, j),
            P(-HalfPi, (j + 1) % n_spins),
            H(j),
            H((j + 1) % n_spins),
            CX(j, (j + 1) % n_spins),
            RZ(-2 * phase, (j + 1) % n_spins),
            CX(j, (j + 1) % n_spins),
            H(j),
            H((j + 1) % n_spins),
            P(HalfPi, j),
            P(HalfPi, j) >>
    /\ tpc' = "gZ"
    /\ UNCHANGED <<n_spins, g, energy_norm, num_steps, j, unitary, rvars, mvars>>

\* # YY
EmitYY ==
    /\ tpc = "YY"
    /\ circuit' = circuit \o
         << P(-HalfPi, j),
            P(-HalfPi, (j + 1) % n_spins),
            H(j),
            H((j + 1) % n_spins),
            CX(j, (j + 1) % n_spins),
            RZ(-2 * phase, (j + 1) % n_spins),
            CX(j, (j + 1) % n_spins),
            H(j),
            H((j + 1) % n_spins),
            P(HalfPi, j),
            P(HalfPi, (j + 1) % n_spins) >>
    /\ tpc' = "gZ"
    /\ UNCHANGED <<n_spins, g, energy_norm, num_steps, j, unitary, rvars, mvars>>

\* # gZ: if g != 0.: circuit.rz(-2. * g * phase, j); then the next spin
FieldTerm ==
    /\ tpc = "gZ"
    /\ circuit' = IF g # 0 THEN Append(circuit, RZ(-2 * g * phase, j)) ELSE circuit
    /\ j' = j + 1
    /\ tpc' = "for"
    /\ UNCHANGED <<n_spins, g, energy_norm, num_steps, unitary, rvars, mvars>>

\* circuit = circuit.repeat(num_steps); circuit.name = 'U'; return circuit
Repeat ==
    /\ tpc = "repeat"
    /\ unitary' = [name |-> "U", step |-> circuit, reps |-> num_steps]
    /\ tpc' = "done"
    /\ UNCHANGED <<n_spins, g, energy_norm, num_steps, j, circuit, rvars, mvars>>

TrotterNext ==
    \/ ForSpin
    \/ CxDuplicate
    \/ EmitZZ
    \/ EmitXX
    \/ EmitYY
    \/ FieldTerm
    \/ Repeat

\* ---------------------------------------------------------------- specifications
\* energy_expval alone
RetrySpec == RetryInit /\ [][RetryNext]_vars

\* energy_expval as a sequential program: a step that can be taken is taken
FairRetrySpec == RetrySpec /\ WF_vars(RetryNext)

\* main alone
MainSpec == MainInit /\ [][MainNext]_vars

\* trotter_twopi_heisenberg alone
TrotterSpec == TrotterInit /\ [][TrotterNext]_vars

\* ---------------------------------------------------------------- properties of energy_expval
Outcomes == [i \in 1..Len(attempts) |-> attempts[i].outcome]
Finished == rpc \in {"returned", "raised"}

RetryAttempts ==
    \* at most NUM_RETRIES attempts, and at least one before the call ends
    /\ Len(attempts) <= NUM_RETRIES
    /\ Finished => Len(attempts) >= 1
    \* an attempt is made only if every earlier attempt raised JobError
    /\ \A i \in 1..Len(attempts) : \A h \in 1..(i - 1) : Outcomes[h] = "JobError"
    /\ rpc = "try" => \A i \in 1..Len(attempts) : Outcomes[i] = "JobError"
    \* the loop stops at the first attempt that completes
    /\ (Len(attempts) >= 1 /\ Outcomes[Len(attempts)] = "ok")
         => rpc \in {"else", "return", "returned"}
    \* the value returned is the energy of the successful attempt alone
    /\ rpc = "returned" =>
         /\ Len(attempts) >= 1
         /\ Outcomes[Len(attempts)] = "ok"
         /\ retval = <<attempts[Len(attempts)].value>>

\* C1: energy_expval makes between 1 and NUM_RETRIES attempts, each one only
\* after all earlier ones raised JobError, stops at the first attempt that
\* completes, returns the energy of that attempt alone, and always terminates.
C1_RetryLoop == []RetryAttempts /\ <>Finished

\* A call that returned after two failed attempts which had already added to energy.
C1_Witness ==
    /\ rpc = "returned"
    /\ Len(attempts) = 3
    /\ attempts[1].value > 0
    /\ attempts[2].value > 0

JobErrorOutcome ==
    \* no normal return unless some attempt succeeded
    /\ rpc = "returned" =>
         /\ \E i \in 1..Len(attempts) : Outcomes[i] = "ok"
         /\ exc = "none"
    \* JobError leaves the call only after NUM_RETRIES failed attempts
    /\ (rpc = "raised" /\ exc = "JobError") =>
         /\ Len(attempts) = NUM_RETRIES
         /\ \A i \in 1..Len(attempts) : Outcomes[i] = "JobError"
         /\ retval = << >>
    \* a JobError of an earlier attempt has not left the call
    /\ (Len(attempts) \in 1..(NUM_RETRIES - 1) /\ Outcomes[Len(attempts)] = "JobError")
         => (rpc \in {"except", "for", "try"} /\ exc = "none")

JobErrorStep ==
    \* the JobError of attempts 1..NUM_RETRIES-1 is swallowed, another attempt follows
    /\ (rpc = "except" /\ Len(attempts) < NUM_RETRIES) => (rpc' = "for" /\ exc' = "none")
    /\ (rpc = "for" /\ Len(attempts) < NUM_RETRIES) => rpc' = "try"
    \* the JobError of attempt NUM_RETRIES is re-raised
    /\ (rpc = "except" /\ Len(attempts) = NUM_RETRIES)
         => (rpc' = "raised" /\ exc' = "JobError" /\ retval' = << >>)

\* C2: a JobError of attempts 1..NUM_RETRIES-1 is swallowed and followed by
\* another attempt; the JobError of attempt NUM_RETRIES is re-raised and no
\* value is returned; the call returns only if some attempt succeeded and
\* raises JobError only after exactly NUM_RETRIES failed attempts.
C2_JobErrorHandling == []JobErrorOutcome /\ [][JobErrorStep]_vars

\* The JobError of the last attempt has left the call.
C2_Witness ==
    /\ rpc = "raised"
    /\ exc = "JobError"
    /\ Len(attempts) = NUM_RETRIES

\* ---------------------------------------------------------------- properties of main
\* C3: the num_calls entry of the dictionary main returns is the number of
\* objective-function calls made by optimizer.minimize.
C3_NumCallsIsMinimizationCalls ==
    mpc = "returned" => result.num_calls = opt_calls

ReportedCounts == {published[i].num_calls : i \in 1..Len(published)}

\* C4: with report_every > 0 a message is published exactly on the calls whose
\* count is a multiple of report_every: after n calls there are n \div
\* report_every messages, each carrying the count it was published at, in
\* strictly increasing order; with report_every <= 0 nothing is published.
C4_InterimReports ==
    /\ report_every > 0 =>
         /\ Len(published) = num_calls \div report_every
         /\ ReportedCounts = {n \in 1..num_calls : n % report_every = 0}
         /\ \A i \in 1..Len(published) : \A k \in 1..Len(published) :
              i < k => published[i].num_calls < published[k].num_calls
    /\ report_every <= 0 => published = << >>

\* Two reports were published with report_every = 2, the second by the final call.
C4_Witness ==
    /\ report_every = 2
    /\ Len(published) = 2
    /\ opt_calls = 3
    /\ mpc = "returned"

\* ---------------------------------------------------------------- properties of the Trotter step
\* Gates one spin contributes: 3 (ZZ) + 7 (XX) + 11 (YY), and the field rz if g != 0
CouplingGates == 3 + 7 + 11
Stride == CouplingGates + (IF g # 0 THEN 1 ELSE 0)
SpinOf(i) == (i - 1) \div Stride
OffsetOf(i) == ((i - 1) % Stride) + 1
BlockAt(off) ==
    IF off <= 3 THEN "ZZ" ELSE IF off <= 3 + 7 THEN "XX"
    ELSE IF off <= CouplingGates THEN "YY" ELSE "gZ"
\* offset of the CX-rz-CX core inside each block's gates
CoreOffsets == {1, 2, 3, 6, 7, 8, 15, 16, 17}
QubitsOf(gate) == {gate.qubits[q] : q \in 1..Len(gate.qubits)}
RingNeighbours(a, b) == a # b /\ (b = (a + 1) % n_spins \/ a = (b + 1) % n_spins)

StepLayout ==
    /\ \A i \in 1..Len(circuit) :
         LET gate == circuit[i]
             spin == SpinOf(i)
             next == (spin + 1) % n_spins
             off == OffsetOf(i)
         IN  /\ spin < n_spins
             \* the coupling blocks act only on spin and its neighbour
             /\ BlockAt(off) # "gZ" => QubitsOf(gate) \subseteq {spin, next}
             \* the core of every block: CX, rz on the target, CX
             /\ off \in CoreOffsets <=> gate.name \in {"cx", "rz"} /\ BlockAt(off) # "gZ"
             /\ off \in {1, 3, 6, 8, 15, 17} <=> gate.name = "cx"
             /\ gate.name = "cx" => gate.qubits = <<spin, next>>
             /\ (gate.name = "rz" /\ BlockAt(off) # "gZ")
                  => (gate.qubits = <<next>> /\ gate.angle = -2 * phase)
             \* the basis changes tell the blocks apart: none, H, P and H
             /\ (BlockAt(off) = "ZZ") => gate.name \in {"cx", "rz"}
             /\ (BlockAt(off) = "XX") => gate.name \in {"cx", "rz", "h"}
             /\ (BlockAt(off) = "YY" /\ off \notin CoreOffsets) =>
                  gate.name = (IF off \in {11, 12, 20, 21} THEN "p" ELSE "h")
             \* the external-field term
             /\ BlockAt(off) = "gZ" =>
                  /\ g # 0
                  /\ gate = RZ(-2 * g * phase, spin)
             \* two-qubit gates couple ring neighbours only
             /\ Len(gate.qubits) = 2 => RingNeighbours(gate.qubits[1], gate.qubits[2])
    \* spins are served in increasing order, each completely
    /\ tpc = "for" => Len(circuit) = j * Stride
    /\ tpc \in {"repeat", "done"} => Len(circuit) = n_spins * Stride
    /\ tpc = "done" => unitary.step = circuit

\* C5: a Trotter step emits, for j = 0..n_spins-1 in order, the blocks ZZ, XX,
\* YY on qubits j and (j+1) mod n_spins (CX control j, target the neighbour, rz
\* of -2*phase on the target between the two CX), then the field rz of
\* -2*g*phase on qubit j iff g != 0; two-qubit gates act on ring neighbours only.
C5_StepLayout == StepLayout

\* A finished step of a ring of at least three spins with an external field.
C5_Witness ==
    /\ tpc = "done"
    /\ n_spins >= 3
    /\ g # 0
    /\ phase # 0
    /\ Len(unitary.step) = n_spins * (CouplingGates + 1)

\* The blocks of a circuit, found from its gates: a block is a CX-rz-CX core,
\* of the kind its preceding basis changes give it.
CoreStarts ==
    {i \in 1..(Len(circuit) - 2) :
        /\ circuit[i].name = "cx"
        /\ circuit[i + 1].name = "rz"
        /\ circuit[i + 2].name = "cx"}
KindOf(i) ==
    IF i <= 2 \/ circuit[i - 1].name # "h" THEN "ZZ"
    ELSE IF i > 4 /\ circuit[i - 3].name = "p" THEN "YY"
    ELSE "XX"
BasisGates(kind) == IF kind = "ZZ" THEN 0 ELSE IF kind = "XX" THEN 2 ELSE 4
PairOf(i) == {circuit[i].qubits[1], circuit[i].qubits[2]}
NeighbourPairs == {{s, (s + 1) % n_spins} : s \in 0..(n_spins - 1)}
BlocksOn(pair, kind) == {i \in CoreStarts : KindOf(i) = kind /\ PairOf(i) = pair}
BlocksOf(kind) == {i \in CoreStarts : KindOf(i) = kind}
Kinds == {"ZZ", "XX", "YY"}

OnQubit(gates, q) == LET On(gate) == gate.qubits = <<q>> IN SelectSeq(gates, On)
Reverse(seq) == [i \in 1..Len(seq) |-> seq[Len(seq) + 1 - i]]
Undo(gate) == [gate EXCEPT !.angle = -gate.angle]
Undone(gates) == Reverse([i \in 1..Len(gates) |-> Undo(gates[i])])

\* every basis change before the core is undone on the same qubit after it
Balanced(i) ==
    LET w == BasisGates(KindOf(i))
        before == SubSeq(circuit, i - w, i - 1)
        after == SubSeq(circuit, i + 3, i + 2 + w)
    IN  /\ i + 2 + w <= Len(circuit)
        /\ \A q \in PairOf(i) :
             /\ OnQubit(after, q) = Undone(OnQubit(before, q))
             /\ OnQubit(before, q) =
                  (IF KindOf(i) = "XX" THEN <<H(q)>>
                   ELSE IF KindOf(i) = "YY" THEN <<P(-HalfPi, q), H(q)>>
                   ELSE << >>)

EachPairOnce ==
    /\ \A pair \in NeighbourPairs : \A kind \in Kinds :
         Cardinality(BlocksOn(pair, kind)) = 1
    /\ \A kind \in Kinds : Cardinality(BlocksOf(kind)) = Cardinality(NeighbourPairs)

\* C6 as stated: for every n_spins >= 2 each unordered neighbour pair receives
\* each of ZZ, XX, YY exactly once, and every block's basis changes are balanced.
C6_EachPairOnceFromTwoSpins ==
    (tpc = "done" /\ n_spins >= 2) =>
        /\ EachPairOnce
        /\ \A i \in CoreStarts : Balanced(i)

\* C6 as amended: each unordered neighbour pair receives each of ZZ, XX, YY
\* exactly once for every n_spins >= 3; on a ring of two spins the only pair
\* {0, 1} receives each of them twice, once from each spin; for every
\* n_spins >= 2 the basis changes of every block are balanced.
C6_EachPairOnceFromThreeSpins ==
    /\ (tpc = "done" /\ n_spins >= 3) => EachPairOnce
    /\ (tpc = "done" /\ n_spins = 2) =>
         /\ NeighbourPairs = {{0, 1}}
         /\ \A kind \in Kinds : Cardinality(BlocksOn({0, 1}, kind)) = 2
    /\ (tpc = "done" /\ n_spins >= 2) =>
         /\ \A kind \in Kinds : Cardinality(BlocksOf(kind)) = n_spins
         /\ \A i \in CoreStarts : Balanced(i)

\* A finished step of a ring of three spins: three pairs, three blocks of each kind.
C6_Witness ==
    /\ tpc = "done"
    /\ n_spins = 3
    /\ Cardinality(NeighbourPairs) = 3
    /\ Cardinality(CoreStarts) = 9

====
